---- MODULE Spec2Model ----
(***************************************************************************)
(* Grid Aligner and Pointwise Correlation Mapper of the notebook           *)
(* 5_spatiotemporal_correlation_analysis.ipynb, with the selection by      *)
(* coordinate bounds that fetches its arrays, and the regional summary of  *)
(* the notebook 6_summarising_exporting_reporting.ipynb.                   *)
(*                                                                         *)
(* Floating-point values are integers (fixed point); the not-a-number      *)
(* value is the sentinel NaN, which compares FALSE with "< 0" as in numpy. *)
(* A labelled array (xarray.DataArray) is a record                         *)
(*   [time, latitude, longitude : coordinate sequences,                    *)
(*    values : time -> latitude -> longitude -> value].                    *)
(***************************************************************************)
EXTENDS Integers, Sequences, FiniteSets, TLC

VARIABLES
    soil_moisture,  \* the low-resolution source array
    bare_soil,      \* the high-resolution target reference array
    fine_moisture,  \* the resampled array (NoArray before line 372)
    ZOOM_FACTOR,    \* <<lat ratio, lon ratio>>, each a fraction <<num, den>>
    SPLINE_ORDER,   \* interpolation order 0..5
    output,         \* the last result of ndzoom (line 387)
    done_steps,     \* number of timestamps the resampling loop has finished
    scipy,          \* the scipy.stats release imported on line 578
    corr,           \* the statistic grid (NoGrid before line 643)
    latout,         \* the list of lists of per-cell records
    cells_done,     \* number of cells the correlation loop has finished
    rank_failed,    \* the last cell went through the except clause of line 670
    tree_cover,     \* the array a bounding box is selected from
    lat_bounds,     \* slice(start, stop) on latitude, <<start, stop>>
    lon_bounds,     \* slice(start, stop) on longitude
    time_bounds,    \* slice(start, stop) on time
    canberra_tree_cover,  \* the selected array (NoArray before line 161)
    clamp_enabled,  \* the caller wants negative results of this variable clamped
    cgrid,          \* the country label of every cell of the runoff grid
    variation,      \* the coefficient of variation of every cell
    mean_runoff,    \* the mean annual runoff of every cell
    countries,      \* the country table, a sequence of rows
    filtered,       \* the rows selected on line 523
    pc,             \* position in the notebook
    err             \* the exception that stopped the run, or "none"

vars == <<soil_moisture, bare_soil, fine_moisture, ZOOM_FACTOR, SPLINE_ORDER,
          output, done_steps, scipy, corr, latout, cells_done, rank_failed,
          tree_cover, lat_bounds, lon_bounds, time_bounds, canberra_tree_cover,
          clamp_enabled, cgrid, variation, mean_runoff, countries, filtered,
          pc, err>>

aligner_vars == <<fine_moisture, ZOOM_FACTOR, SPLINE_ORDER, output, done_steps>>
mapper_vars == <<scipy, corr, latout, cells_done, rank_failed>>
selection_vars == <<tree_cover, lat_bounds, lon_bounds, time_bounds, canberra_tree_cover>>
summary_vars == <<cgrid, variation, mean_runoff, countries, filtered>>

----------------------------------------------------------------------------
(* Bounds of the model. *)

MaxSrc == 2
MaxTgt == 4
MaxTime == 2
MaxRing == 1
MaxSeries == 5
MaxSel == 2
MaxCells == 3

(* np.nan *)
NaN == -9999

Orders == 0..5

NoArray == [time |-> <<>>, latitude |-> <<>>, longitude |-> <<>>, values |-> <<>>]

----------------------------------------------------------------------------
(* Helpers on sequences and labelled arrays. *)

Range(s) == {s[i] : i \in DOMAIN s}

\* the strictly increasing sequence of the elements of a finite set of integers
RECURSIVE SortedSeq(_)
SortedSeq(S) ==
    IF S = {} THEN <<>>
    ELSE LET m == CHOOSE x \in S : \A y \in S : x <= y
         IN  <<m>> \o SortedSeq(S \ {m})

\* time coordinates the data-access layer can deliver: ordered discrete steps
TimeAxes == {SortedSeq(S) : S \in (SUBSET (1..MaxTime)) \ {{}}}

\* a variant that takes the first position whatever the label
IndexFirst(axis, label) == 1

\* position of a coordinate label on an axis (DataArray.sel by label)
IndexOf(axis, label) == CHOOSE i \in DOMAIN axis : axis[i] = label

\* cell-centre coordinates of an axis of n cells over an extent shared with an
\* axis of m cells; latitude is descending, longitude ascending
LatAxis(n, m) == [i \in 1..n |-> 0 - (2 * i - 1) * m]
LonAxis(n, m) == [j \in 1..n |-> (2 * j - 1) * m]

NLat(a) == Len(a.latitude)
NLon(a) == Len(a.longitude)
NTime(a) == Len(a.time)

Shape2(grid) == <<Len(grid), IF Len(grid) = 0 THEN 0 ELSE Len(grid[1])>>

----------------------------------------------------------------------------
(* scipy.ndimage.zoom, as called on lines 387 and 397. *)

\* Python's round(): to nearest, ties to even; num/den >= 0
RoundHalfEven(num, den) ==
    LET q == num \div den
        r == num % den
    IN  IF 2 * r < den THEN q
        ELSE IF 2 * r > den THEN q + 1
        ELSE IF q % 2 = 0 THEN q ELSE q + 1

\* output length of one axis: int(round(input_length * zoom))
ZoomLen(n, z) == RoundHalfEven(n * z[1], z[2])

\* output index o (1-based) of an axis of nout cells lies at input coordinate
\* (o-1) * (nin-1) / (nout-1); CoordNum over CoordDen is that fraction
CoordDen(nout) == IF nout > 1 THEN nout - 1 ELSE 1
CoordNum(o, nin) == (o - 1) * (nin - 1)

\* variants of the nearest index: counted from the far end of the axis, and
\* truncated instead of rounded
NearestFlipped(o, nin, nout) ==
    nin - ((2 * CoordNum(o, nin) + CoordDen(nout)) \div (2 * CoordDen(nout)))

NearestFloor(o, nin, nout) == (CoordNum(o, nin) \div CoordDen(nout)) + 1

\* order 0: the input index nearest to the coordinate, floor(c + 0.5)
Nearest(o, nin, nout) ==
    ((2 * CoordNum(o, nin) + CoordDen(nout)) \div (2 * CoordDen(nout))) + 1

\* order 1: the two neighbours of the coordinate and the weight of the upper one
Lower(o, nin, nout) == (CoordNum(o, nin) \div CoordDen(nout)) + 1
Frac(o, nin, nout) == CoordNum(o, nin) % CoordDen(nout)

\* value of in[i][j] weighted by w, not read when the weight is zero
Weighted(w, in, i, j) == IF w = 0 THEN 0 ELSE w * in[i][j]

Bilinear(in, i, j, nlat, nlon) ==
    LET li == Lower(i, Len(in), nlat)
        lj == Lower(j, Len(in[1]), nlon)
        fi == Frac(i, Len(in), nlat)
        fj == Frac(j, Len(in[1]), nlon)
        di == CoordDen(nlat)
        dj == CoordDen(nlon)
    IN  ( Weighted((di - fi) * (dj - fj), in, li, lj)
        + Weighted((di - fi) * fj, in, li, lj + 1)
        + Weighted(fi * (dj - fj), in, li + 1, lj)
        + Weighted(fi * fj, in, li + 1, lj + 1) ) \div (di * dj)

\* an output cell that does not coincide with an input sample
OffSample(in, i, j, nlat, nlon) ==
    Frac(i, Len(in), nlat) # 0 \/ Frac(j, Len(in[1]), nlon) # 0

\* ndzoom(input, zoom, order).  Order 0 copies the nearest sample, order 1
\* interpolates linearly, and a spline of order 2..5 passes through the samples
\* and deviates between them from the linear interpolant by `ring` (overshoot).
ndzoom(in, zoom, order, ring) ==
    LET nlat == ZoomLen(Len(in), zoom[1])
        nlon == ZoomLen(Len(in[1]), zoom[2])
    IN  [i \in 1..nlat |-> [j \in 1..nlon |->
            IF order = 0
            THEN in[Nearest(i, Len(in), nlat)][Nearest(j, Len(in[1]), nlon)]
            ELSE Bilinear(in, i, j, nlat, nlon)
                 + (IF order >= 2 /\ OffSample(in, i, j, nlat, nlon)
                    THEN ring ELSE 0)]]

\* the deviations a spline of the given order can show between the samples
Rings(order) == IF order >= 2 THEN (0 - MaxRing)..MaxRing ELSE {0}

----------------------------------------------------------------------------
(* The resampling cell, lines 370-399. *)

\* a variant that passes the data on as they are
NanKept(data) == data

\* np.nan_to_num(data): missing values become the placeholder zero; the
\* stored values are finite numbers
nan_to_num(data) ==
    [i \in DOMAIN data |-> [j \in DOMAIN data[i] |->
        IF data[i][j] = NaN THEN 0 ELSE data[i][j]]]

\* np.isnan(data)
isnan(data) ==
    [i \in DOMAIN data |-> [j \in DOMAIN data[i] |-> data[i][j] = NaN]]

\* a variant that takes the latitude ratio for both axes
ZoomFactorSquare(target, source) ==
    << <<NLat(target), NLat(source)>>, <<NLat(target), NLat(source)>> >>

\* ZOOM_FACTOR = (len(bare_soil.latitude) / len(soil_moisture.latitude),
\*                len(bare_soil.longitude) / len(soil_moisture.longitude))
ZoomFactorOf(target, source) ==
    << <<NLat(target), NLat(source)>>, <<NLon(target), NLon(source)>> >>

\* fine[:] = output succeeds when numpy can broadcast output to fine's shape
Broadcastable(from, to) ==
    /\ from[1] = to[1] \/ from[1] = 1
    /\ from[2] = to[2] \/ from[2] = 1

Broadcast(grid, to) ==
    [i \in 1..to[1] |-> [j \in 1..to[2] |->
        grid[IF Len(grid) = 1 THEN 1 ELSE i][IF Len(grid[1]) = 1 THEN 1 ELSE j]]]

\* variants of the clamp: none at all, and negative values marked missing
NoClamp(grid) == grid

ClampToNaN(grid) ==
    [i \in DOMAIN grid |-> [j \in DOMAIN grid[i] |->
        IF grid[i][j] # NaN /\ grid[i][j] < 0 THEN NaN ELSE grid[i][j]]]

\* fine.values[fine.values < 0] = 0
Clamp(grid) ==
    [i \in DOMAIN grid |-> [j \in DOMAIN grid[i] |->
        IF grid[i][j] # NaN /\ grid[i][j] < 0 THEN 0 ELSE grid[i][j]]]

\* a variant that takes a zero for a missing value as well
MaskWithZeros(grid, mask) ==
    [i \in DOMAIN grid |-> [j \in DOMAIN grid[i] |->
        IF mask[i][j] \/ grid[i][j] = 0 THEN NaN ELSE grid[i][j]]]

\* fine.values[mask] = np.nan
MaskWith(grid, mask) ==
    [i \in DOMAIN grid |-> [j \in DOMAIN grid[i] |->
        IF mask[i][j] THEN NaN ELSE grid[i][j]]]

\* a variant that copies the NaN of the high-res data only
RemaskReferenceOnly(grid, reference, data, zoom) == MaskWith(grid, isnan(reference))

\* lines 396-397: the NaN of the high-res data, then the NaN of the low-res
\* data zoomed with nearest (blocky) zooming
Remask(grid, reference, data, zoom) ==
    MaskWith(MaskWith(grid, isnan(reference)), ndzoom(isnan(data), zoom, 0, 0))

\* a variant that starts from an array of zeros
NewFineZeros(target, source) ==
    [target EXCEPT !.time = source.time,
                   !.values = [t \in DOMAIN target.values |->
                        [i \in DOMAIN target.values[t] |->
                            [j \in DOMAIN target.values[t][i] |-> 0]]]]

\* fine_moisture = deepcopy(bare_soil); fine_moisture['time'] = soil_moisture.time
NewFine(target, source) == [target EXCEPT !.time = source.time]

\* a variant that accepts a time coordinate of any length
NeverConflicting(target, source) == FALSE

\* a coordinate can replace one of another length only by raising ValueError
ConflictingSizes(target, source) == NTime(target) # NTime(source)

\* array.sel(time=label) raises KeyError for a label the axis does not hold
HasLabel(axis, label) == label \in Range(axis)

\* len(target axis) / len(source axis) raises ZeroDivisionError for a source
\* axis without cells
DividesByZero(source) == NLat(source) = 0 \/ NLon(source) = 0

\* a variant that assigns the zoomed slice to every time step of the array
AssignAll(array, k, grid) ==
    [array EXCEPT !.values = [t \in DOMAIN array.values |-> grid]]

\* fine = fine_moisture.sel(time=timestamp); fine[...] = ...: fine is a view
\* of one time step, a write through it changes that slice of fine_moisture
AssignSlice(array, k, grid) == [array EXCEPT !.values[k] = grid]

\* a variant for a shallow copy, which shares its values with the original
AfterWriteToShallowCopy(original, copy) == [original EXCEPT !.values = copy.values]

\* the original of deepcopy(original) after a write to the copy: the deep
\* copy owns its values
AfterWriteToCopy(original, copy) == original

\* lines 372-379
Prepare ==
    /\ pc = "start"
    /\ IF ConflictingSizes(bare_soil, soil_moisture)
       THEN /\ pc' = "failed"
            /\ err' = "ValueError"
            /\ fine_moisture' = bare_soil
            /\ UNCHANGED <<ZOOM_FACTOR, SPLINE_ORDER>>
       ELSE IF DividesByZero(soil_moisture)
       THEN /\ pc' = "failed"
            /\ err' = "ZeroDivisionError"
            /\ fine_moisture' = NewFine(bare_soil, soil_moisture)
            /\ SPLINE_ORDER' = 3
            /\ UNCHANGED ZOOM_FACTOR
       ELSE /\ fine_moisture' = NewFine(bare_soil, soil_moisture)
            /\ \E order \in Orders : SPLINE_ORDER' = order
            /\ ZOOM_FACTOR' = ZoomFactorOf(bare_soil, soil_moisture)
            /\ pc' = "align"
            /\ err' = "none"
    /\ UNCHANGED <<soil_moisture, bare_soil, output, done_steps, mapper_vars,
                   selection_vars, summary_vars,
                   clamp_enabled>>

\* one iteration of `for timestamp in fine_moisture.time`, lines 383-397
AlignStep ==
    /\ pc = "align"
    /\ done_steps < NTime(fine_moisture)
    /\ \E ring \in Rings(SPLINE_ORDER) :
        LET k == done_steps + 1
            timestamp == fine_moisture.time[k]
            data == soil_moisture.values[IndexOf(soil_moisture.time, timestamp)]
            out == ndzoom(nan_to_num(data), ZOOM_FACTOR, SPLINE_ORDER, ring)
            shape == <<NLat(fine_moisture), NLon(fine_moisture)>>
            clamped == Clamp(Broadcast(out, shape))
        IN  /\ output' = out
            /\ IF ~Broadcastable(Shape2(out), shape)
               THEN \* fine[:] = output: could not broadcast
                    /\ pc' = "failed"
                    /\ err' = "ValueError"
                    /\ UNCHANGED <<fine_moisture, done_steps>>
               ELSE IF ~HasLabel(bare_soil.time, timestamp)
               THEN \* bare_soil.sel(time=timestamp) on line 396
                    /\ pc' = "failed"
                    /\ err' = "KeyError"
                    /\ fine_moisture' = AssignSlice(fine_moisture, k, clamped)
                    /\ UNCHANGED done_steps
               ELSE IF Shape2(ndzoom(isnan(data), ZOOM_FACTOR, 0, 0)) # shape
               THEN \* boolean index of line 397 does not match the array
                    /\ pc' = "failed"
                    /\ err' = "IndexError"
                    /\ fine_moisture' = AssignSlice(fine_moisture, k,
                            MaskWith(clamped, isnan(
                                bare_soil.values[IndexOf(bare_soil.time, timestamp)])))
                    /\ UNCHANGED done_steps
               ELSE LET reference ==
                            bare_soil.values[IndexOf(bare_soil.time, timestamp)]
                    IN  /\ fine_moisture' = AssignSlice(fine_moisture, k,
                                Remask(clamped, reference, data, ZOOM_FACTOR))
                        /\ done_steps' = k
                        /\ pc' = IF k = NTime(fine_moisture) THEN "aligned" ELSE "align"
                        /\ err' = "none"
    /\ bare_soil' = AfterWriteToCopy(bare_soil, fine_moisture')
    /\ UNCHANGED <<soil_moisture, ZOOM_FACTOR, SPLINE_ORDER, mapper_vars,
                   selection_vars, summary_vars,
                   clamp_enabled>>

----------------------------------------------------------------------------
(* scipy.stats.pearsonr and scipy.stats.spearmanr, imported on line 578.   *)
(* Coefficients are in hundredths (Scale = 1.0), rounded towards zero, so  *)
(* a coefficient is +-Scale exactly when the correlation is perfect.       *)

Scale == 100

\* a p-value that is neither zero nor not-a-number: some value in (0, 1]
PPositive == 50

\* scipy before and after pearsonr started to validate its input length
Builds == {"legacy", "current"}

RECURSIVE SumTo(_, _)
SumTo(f, n) == IF n = 0 THEN 0 ELSE f[n] + SumTo(f, n - 1)

HasNaN(x) == \E t \in DOMAIN x : x[t] = NaN

ISqrt(m) == CHOOSE k \in 0..Scale : k * k <= m /\ m < (k + 1) * (k + 1)

\* n * sum(x*y) - sum(x) * sum(y): n^2 times the covariance
Cov(x, y) ==
    Len(x) * SumTo([t \in DOMAIN x |-> x[t] * y[t]], Len(x)) - SumTo(x, Len(x)) * SumTo(y, Len(y))

RECURSIVE GCD(_, _)
GCD(a, b) == IF b = 0 THEN a ELSE GCD(b, a % b)

\* sqrt(num / den) in hundredths, for 0 <= num <= den, den > 0
RootOfRatio(num, den) ==
    LET g == GCD(den, num)
    IN  ISqrt((Scale * Scale * (num \div g)) \div (den \div g))

\* a variant that loses the sign of the covariance
PearsonRUnsigned(x, y) ==
    IF HasNaN(x) \/ HasNaN(y) \/ Len(x) = 0 THEN NaN
    ELSE LET c == Cov(x, y)
             d == Cov(x, x) * Cov(y, y)
         IN  IF d = 0 THEN NaN ELSE RootOfRatio(c * c, d)

\* r = r_num / r_den; not-a-number for missing input and for zero variance
PearsonR(x, y) ==
    IF HasNaN(x) \/ HasNaN(y) \/ Len(x) = 0 THEN NaN
    ELSE LET c == Cov(x, y)
             d == Cov(x, x) * Cov(y, y)
         IN  IF d = 0 THEN NaN
             ELSE IF c >= 0 THEN RootOfRatio(c * c, d)
             ELSE 0 - RootOfRatio(c * c, d)

\* two-sided p-value of pearsonr for n observations
PearsonP(r, n, build) ==
    IF r = NaN THEN NaN
    ELSE IF n = 2 /\ build = "current" THEN PPositive
    ELSE IF r = Scale \/ r = 0 - Scale THEN 0
    ELSE PPositive

\* rankdata, average method, times two: ties share the mean of their ranks
Rank2(x) ==
    [t \in DOMAIN x |->
        2 * Cardinality({u \in DOMAIN x : x[u] < x[t]})
        + Cardinality({u \in DOMAIN x : x[u] = x[t]}) + 1]

\* the linear correlation of the rank arrays
SpearmanR(x, y) ==
    IF HasNaN(x) \/ HasNaN(y) THEN NaN ELSE PearsonR(Rank2(x), Rank2(y))

\* p-value from t = rs * sqrt((n-2) / ((rs+1) * (1-rs))) with n-2 degrees of
\* freedom: 0/0 for two observations
SpearmanP(rs, n) ==
    IF rs = NaN \/ n <= 2 THEN NaN
    ELSE IF rs = Scale \/ rs = 0 - Scale THEN 0
    ELSE PPositive

Returns(pair) == [raises |-> "none", val |-> pair]
Raises(e) == [raises |-> e, val |-> <<>>]

\* pearsonr(x, y): the current release rejects fewer than two observations
pearsonr(x, y, build) ==
    IF build = "current" /\ Len(x) < 2
    THEN {Raises("ValueError")}
    ELSE {Returns(<<PearsonR(x, y), PearsonP(PearsonR(x, y), Len(x), build)>>)}

\* a variant that returns the p-value first
spearmanrSwapped(x, y) ==
    {Returns(<<SpearmanP(SpearmanR(x, y), Len(x)), SpearmanR(x, y)>>)}

\* input on which the rank correlation is undefined
Degenerate(x, y) == SpearmanR(x, y) = NaN

\* spearmanr(x, y): "Spearman's R can fail for some values" (line 665)
spearmanr(x, y) ==
    {Returns(<<SpearmanR(x, y), SpearmanP(SpearmanR(x, y), Len(x))>>)}
    \cup (IF Degenerate(x, y) THEN {Raises("ValueError")} ELSE {})

----------------------------------------------------------------------------
(* The correlation cells, lines 635-679. *)

\* contents of memory that np.ndarray allocates without initialising
Uninit == -7777

NoGrid == [latitude |-> <<>>, longitude |-> <<>>, pearson_r |-> <<>>,
           pearson_p |-> <<>>, spearman_r |-> <<>>, spearman_p |-> <<>>]

\* the time series of the cell with the given coordinate labels:
\* array.sel(latitude=lat, longitude=lon)
SelCell(array, lat, lon) ==
    [t \in DOMAIN array.values |->
        array.values[t][IndexOf(array.latitude, lat)][IndexOf(array.longitude, lon)]]

\* lines 635-643: the dataset with empty arrays along latitude and longitude
AllocCorr ==
    /\ pc = "aligned"
    /\ \E build \in Builds : scipy' = build
    /\ LET empty == [i \in 1..NLat(bare_soil) |-> [j \in 1..NLon(bare_soil) |-> Uninit]]
       IN  corr' = [latitude |-> bare_soil.latitude, longitude |-> bare_soil.longitude,
                    pearson_r |-> empty, pearson_p |-> empty,
                    spearman_r |-> empty, spearman_p |-> empty]
    /\ latout' = IF NLon(fine_moisture) = 0
                  THEN [i \in 1..NLat(fine_moisture) |-> <<>>] ELSE <<>>
    /\ cells_done' = 0
    /\ rank_failed' = FALSE
    /\ pc' = IF NLat(fine_moisture) * NLon(fine_moisture) = 0 THEN "mapped" ELSE "map"
    /\ UNCHANGED <<soil_moisture, bare_soil, aligner_vars, selection_vars,
                   summary_vars, clamp_enabled, err>>

\* a variant that puts the record at the front of its row
AppendCellFront(rows, i, val) ==
    IF i > Len(rows) THEN Append(rows, <<val>>)
    ELSE [rows EXCEPT ![i] = <<val>> \o @]

\* a variant that opens a row for every record
AppendCellNewRow(rows, i, val) == Append(rows, <<val>>)

\* the list of lists after lonout.append(val) in row i
AppendCell(rows, i, val) ==
    IF i > Len(rows) THEN Append(rows, <<val>>)
    ELSE [rows EXCEPT ![i] = Append(@, val)]

\* the list of lists when the cell raises: a new row has been appended empty
OpenRow(rows, i) == IF i > Len(rows) THEN Append(rows, <<>>) ELSE rows

\* a variant without the except clause
CaughtNothing(e) == FALSE

\* the except clause of line 670 catches ValueError only
Caught(e) == e = "ValueError"

\* a variant that writes the record of a cell into the grid at once
CorrWrittenPerCell(grid, i, j, val) ==
    [grid EXCEPT !.pearson_r[i][j] = val[1], !.pearson_p[i][j] = val[2],
                 !.spearman_r[i][j] = val[3], !.spearman_p[i][j] = val[4]]

\* the statistic grid after lonout.append(val) of line 672: the record goes
\* to the list, the grid is not written inside the loop
CorrAfterAppend(grid, i, j, val) == grid

\* one iteration of the inner loop, lines 659-672, with the row set-up of
\* lines 657-658 when the cell opens a row
CellStep ==
    /\ pc = "map"
    /\ cells_done < NLat(fine_moisture) * NLon(fine_moisture)
    /\ LET i == (cells_done \div NLon(fine_moisture)) + 1
           j == (cells_done % NLon(fine_moisture)) + 1
           lat == fine_moisture.latitude[i]
           lon == fine_moisture.longitude[j]
           x == SelCell(fine_moisture, lat, lon)
           y == SelCell(bare_soil, lat, lon)
       IN  \E p \in pearsonr(x, y, scipy), s \in spearmanr(x, y) :
            IF p.raises # "none"
            THEN /\ latout' = OpenRow(latout, i)
                 /\ pc' = "failed"
                 /\ err' = p.raises
                 /\ UNCHANGED <<cells_done, rank_failed, corr>>
            ELSE IF s.raises # "none" /\ ~Caught(s.raises)
            THEN /\ latout' = OpenRow(latout, i)
                 /\ pc' = "failed"
                 /\ err' = s.raises
                 /\ rank_failed' = TRUE
                 /\ UNCHANGED <<cells_done, corr>>
            ELSE /\ latout' = AppendCell(latout, i,
                        p.val \o (IF s.raises # "none" THEN <<NaN, NaN>> ELSE s.val))
                 /\ corr' = CorrAfterAppend(corr, i, j,
                        p.val \o (IF s.raises # "none" THEN <<NaN, NaN>> ELSE s.val))
                 /\ cells_done' = cells_done + 1
                 /\ rank_failed' = (s.raises # "none")
                 /\ pc' = IF cells_done + 1 = NLat(fine_moisture) * NLon(fine_moisture)
                          THEN "mapped" ELSE "map"
                 /\ err' = "none"
    /\ UNCHANGED <<soil_moisture, bare_soil, aligner_vars, scipy, selection_vars,
                   summary_vars, clamp_enabled>>

\* a variant that reads the record from its far end
FieldSwapped(rows, k) ==
    [i \in DOMAIN rows |-> [j \in DOMAIN rows[i] |-> rows[i][j][5 - k]]]

\* arr[..., k] of arr = np.array(latout)
Field(rows, k) == [i \in DOMAIN rows |-> [j \in DOMAIN rows[i] |-> rows[i][j][k]]]

\* np.array(latout) of rows without a record has no last axis to index
NoRecord(rows) == \A i \in DOMAIN rows : rows[i] = <<>>

\* lines 673-679: convert the lists and insert the pieces into the dataset
Finish ==
    /\ pc = "mapped"
    /\ IF NoRecord(latout)
       THEN \* arr[..., 0]: index 0 is out of bounds for an axis of size 0
            /\ pc' = "failed"
            /\ err' = "IndexError"
            /\ UNCHANGED corr
       ELSE /\ corr' = [corr EXCEPT !.pearson_r = Field(latout, 1),
                                    !.pearson_p = Field(latout, 2),
                                    !.spearman_r = Field(latout, 3),
                                    !.spearman_p = Field(latout, 4)]
            /\ pc' = "done"
            /\ UNCHANGED err
    /\ UNCHANGED <<soil_moisture, bare_soil, aligner_vars, scipy, latout, cells_done,
                   rank_failed, selection_vars, summary_vars,
                   clamp_enabled>>

----------------------------------------------------------------------------
(* Selection of a bounding box, lines 154-162: array.sel(latitude=slice(..),  *)
(* longitude=slice(..), time=slice(..)) on the coordinate indexes.            *)

\* pandas takes an index whose first label is above the second as decreasing
IsDescending(axis) == Len(axis) >= 2 /\ axis[1] > axis[2]

\* a variant in the manner of positional slices, whose stop is left out
SliceLocsHalfOpen(axis, bounds) ==
    IF IsDescending(axis)
    THEN <<Cardinality({i \in DOMAIN axis : axis[i] > bounds[1]}) + 1,
           Cardinality({i \in DOMAIN axis : axis[i] > bounds[2]})>>
    ELSE <<Cardinality({i \in DOMAIN axis : axis[i] < bounds[1]}) + 1,
           Cardinality({i \in DOMAIN axis : axis[i] < bounds[2]})>>

\* Index.slice_locs(start, stop) of a monotonic index: the first position
\* not before start and the last position not after stop, in the direction
\* of the index (searchsorted left for start, right for stop)
SliceLocs(axis, bounds) ==
    IF IsDescending(axis)
    THEN <<Cardinality({i \in DOMAIN axis : axis[i] > bounds[1]}) + 1,
           Cardinality({i \in DOMAIN axis : axis[i] >= bounds[2]})>>
    ELSE <<Cardinality({i \in DOMAIN axis : axis[i] < bounds[1]}) + 1,
           Cardinality({i \in DOMAIN axis : axis[i] <= bounds[2]})>>

\* number of positions from lo to hi
Span(locs) == IF locs[2] >= locs[1] THEN locs[2] - locs[1] + 1 ELSE 0

\* array.sel(latitude=..., longitude=..., time=...) with three slices
sel(array, latitude, longitude, time) ==
    LET t == SliceLocs(array.time, time)
        a == SliceLocs(array.latitude, latitude)
        o == SliceLocs(array.longitude, longitude)
    IN  [time |-> SubSeq(array.time, t[1], t[2]),
         latitude |-> SubSeq(array.latitude, a[1], a[2]),
         longitude |-> SubSeq(array.longitude, o[1], o[2]),
         values |-> [k \in 1..Span(t) |-> [i \in 1..Span(a) |-> [j \in 1..Span(o) |->
            array.values[t[1] + k - 1][a[1] + i - 1][o[1] + j - 1]]]]]

\* lines 161-162: canberra_tree_cover = tree_cover.sel(...)
Select ==
    /\ pc = "select"
    /\ canberra_tree_cover' = sel(tree_cover, lat_bounds, lon_bounds, time_bounds)
    /\ pc' = "selected"
    /\ UNCHANGED <<soil_moisture, bare_soil, aligner_vars, mapper_vars, tree_cover,
                   lat_bounds, lon_bounds, time_bounds, summary_vars,
                   clamp_enabled, err>>

----------------------------------------------------------------------------
(* Regional summary of the notebook 6_summarising_exporting_reporting.ipynb, *)
(* lines 407-523: the mean of a gridded statistic per country, the ranking   *)
(* of the country table and the filter on Australia's runoff.  A grid is the *)
(* sequence of its cells and a table the sequence of its rows; a mean is in  *)
(* tenths of the unit of the cells.                                          *)

Tenths == 10

\* a variant that takes the mean of the whole grid
MeanOfAll(grid, labels, label) ==
    LET cells == {c \in DOMAIN grid : grid[c] # NaN}
    IN  IF cells = {} THEN NaN
        ELSE (Tenths * SumTo([c \in DOMAIN grid |-> IF c \in cells THEN grid[c] ELSE 0],
                             Len(grid))) \div Cardinality(cells)

\* float(grid.where(cgrid == label).mean()): the cells of another label are
\* masked, the mean skips the missing cells, and the mean of no cell is NaN
MeanWhere(grid, labels, label) ==
    LET cells == {c \in DOMAIN grid : labels[c] = label /\ grid[c] # NaN}
    IN  IF cells = {} THEN NaN
        ELSE (Tenths * SumTo([c \in DOMAIN grid |-> IF c \in cells THEN grid[c] ELSE 0],
                             Len(grid))) \div Cardinality(cells)

\* lines 407-408: countries['VARIATION'] = var_means, one mean per row in the
\* order of the rows
AddVariation ==
    /\ pc = "summary"
    /\ countries' = [i \in DOMAIN countries |->
            [ISO2 |-> countries[i].ISO2, LABEL |-> countries[i].LABEL,
             VARIATION |-> MeanWhere(variation, cgrid, countries[i].LABEL)]]
    /\ pc' = "summarised"
    /\ UNCHANGED <<soil_moisture, bare_soil, aligner_vars, mapper_vars, selection_vars,
                   clamp_enabled, cgrid, variation, mean_runoff, filtered, err>>

\* a row dropna keeps: the other columns of the table are complete
NotNa(row) == row.VARIATION # NaN

\* line 426: countries.dropna(inplace=True)
DropNa ==
    /\ pc = "summarised"
    /\ countries' = SelectSeq(countries, NotNa)
    /\ pc' = "cleaned"
    /\ UNCHANGED <<soil_moisture, bare_soil, aligner_vars, mapper_vars, selection_vars,
                   clamp_enabled, cgrid, variation, mean_runoff, filtered, err>>

\* the orders of n rows
Orderings(n) == {p \in [1..n -> 1..n] : \A i, j \in 1..n : p[i] = p[j] => i = j}

\* the tables with the rows of a table in another order
Reordered(rows) == {[i \in DOMAIN rows |-> rows[p[i]]] : p \in Orderings(Len(rows))}

\* a variant with the default ascending=True
sort_values_ascending(rows) ==
    {s \in Reordered(rows) :
        \A i, j \in DOMAIN s : i < j => s[i].VARIATION <= s[j].VARIATION}

\* rows.sort_values(by='VARIATION', ascending=False): the default quicksort
\* is not stable, rows of equal VARIATION come in any order
sort_values(rows) ==
    {s \in Reordered(rows) :
        \A i, j \in DOMAIN s : i < j => s[i].VARIATION >= s[j].VARIATION}

\* line 436: countries.sort_values(by='VARIATION', ascending=False, inplace=True)
SortValues ==
    /\ pc = "cleaned"
    /\ \E s \in sort_values(countries) : countries' = s
    /\ pc' = "ranked"
    /\ UNCHANGED <<soil_moisture, bare_soil, aligner_vars, mapper_vars, selection_vars,
                   clamp_enabled, cgrid, variation, mean_runoff, filtered, err>>

\* lines 490-493: countries['RUNOFF'] = var_means, the means computed from
\* countries.LABEL in the order the rows have now
AddRunoff ==
    /\ pc = "ranked"
    /\ countries' = [i \in DOMAIN countries |->
            [ISO2 |-> countries[i].ISO2, LABEL |-> countries[i].LABEL,
             VARIATION |-> countries[i].VARIATION,
             RUNOFF |-> MeanWhere(mean_runoff, cgrid, countries[i].LABEL)]]
    /\ pc' = "runoff"
    /\ UNCHANGED <<soil_moisture, bare_soil, aligner_vars, mapper_vars, selection_vars,
                   clamp_enabled, cgrid, variation, mean_runoff, filtered, err>>

\* a variant with a strict comparison
MoreThan(a, b) == a # NaN /\ b # NaN /\ a > b

\* a >= b of two floats, False when either is NaN
AtLeast(a, b) == a # NaN /\ b # NaN /\ a >= b

\* the positions of the rows with the given index label
RowsOf(rows, key) == {i \in DOMAIN rows : rows[i].ISO2 = key}

\* line 523: filtered = countries[countries.RUNOFF >= countries.RUNOFF.xs('AU')]
Filter ==
    /\ pc = "runoff"
    /\ IF RowsOf(countries, "AU") = {}
       THEN \* xs('AU') on an index without the label
            /\ pc' = "failed"
            /\ err' = "KeyError"
            /\ UNCHANGED filtered
       ELSE LET au == countries[CHOOSE i \in RowsOf(countries, "AU") : TRUE].RUNOFF
            IN  /\ filtered' = SelectSeq(countries, LAMBDA row : AtLeast(row.RUNOFF, au))
                /\ pc' = "filtered"
                /\ UNCHANGED err
    /\ UNCHANGED <<soil_moisture, bare_soil, aligner_vars, mapper_vars, selection_vars,
                   clamp_enabled, cgrid, variation, mean_runoff, countries>>

----------------------------------------------------------------------------
(* Inputs delivered by the data-access layer. *)

\* the smallest source value: some source cells are negative, some zero
Low == 0 - 3

\* a source array: values differ from cell to cell and grow with time; with
\* `gap` the first cell is missing at the first time step
SourceArray(axis, nlat, nlon, mlat, mlon, gap) ==
    [time |-> axis,
     latitude |-> LatAxis(nlat, mlat),
     longitude |-> LonAxis(nlon, mlon),
     values |-> [t \in DOMAIN axis |-> [i \in 1..nlat |-> [j \in 1..nlon |->
        IF gap /\ t = 1 /\ i = 1 /\ j = 1 THEN NaN
        ELSE Low + axis[t] + nlon * (i - 1) + (j - 1)]]]]

\* a target array: cells rise, fall or stay constant in time; with `gap` the
\* last cell is missing at every time step
TargetArray(axis, nlat, nlon, mlat, mlon, gap) ==
    [time |-> axis,
     latitude |-> LatAxis(nlat, mlat),
     longitude |-> LonAxis(nlon, mlon),
     values |-> [t \in DOMAIN axis |-> [i \in 1..nlat |-> [j \in 1..nlon |->
        IF gap /\ i = nlat /\ j = nlon THEN NaN
        ELSE IF j % 3 = 0 THEN 20
        ELSE IF (i + j) % 2 = 0 THEN 20 + axis[t] ELSE 20 - axis[t]]]]]

\* the notebook of the regional summary has not been run
NoSummary ==
    /\ cgrid = <<>>
    /\ variation = <<>>
    /\ mean_runoff = <<>>
    /\ countries = <<>>
    /\ filtered = <<>>

InitCommon ==
    /\ fine_moisture = NoArray
    /\ ZOOM_FACTOR = << <<1, 1>>, <<1, 1>> >>
    /\ SPLINE_ORDER = 3
    /\ output = <<>>
    /\ done_steps = 0
    /\ scipy = "none"
    /\ corr = NoGrid
    /\ latout = <<>>
    /\ cells_done = 0
    /\ rank_failed = FALSE
    /\ tree_cover = NoArray
    /\ lat_bounds = <<0, 0>>
    /\ lon_bounds = <<0, 0>>
    /\ time_bounds = <<0, 0>>
    /\ canberra_tree_cover = NoArray
    /\ NoSummary
    /\ pc = "start"
    /\ err = "none"

\* two independently fetched arrays of different resolution
InitGrid ==
    \E slat \in 1..MaxSrc, slon \in 1..MaxSrc, tlat \in 1..MaxTgt, tlon \in 1..MaxTgt,
       saxis \in TimeAxes, taxis \in TimeAxes,
       sgap \in BOOLEAN, tgap \in BOOLEAN :
        /\ soil_moisture = SourceArray(saxis, slat, slon, tlat, tlon, sgap)
        /\ bare_soil = TargetArray(taxis, tlat, tlon, slat, slon, tgap)
        /\ clamp_enabled = TRUE
        /\ InitCommon

\* an array resampled onto its own grid, with itself as the reference; the
\* variable is one that may be negative, or one that may not
InitSelf ==
    \E slat \in 1..MaxSrc, slon \in 1..MaxSrc, saxis \in TimeAxes,
       sgap \in BOOLEAN :
        /\ soil_moisture = SourceArray(saxis, slat, slon, slat, slon, sgap)
        /\ bare_soil = soil_moisture
        /\ clamp_enabled \in BOOLEAN
        /\ InitCommon

\* the time series of a single-cell array
SourceKinds == {"lin", "sq", "zig", "const", "gap"}
TargetKinds == SourceKinds \cup {"aff", "rev"}

SeriesValue(kind, t, n) ==
    CASE kind = "lin" -> t
      [] kind = "aff" -> 2 * t + 1
      [] kind = "rev" -> n + 1 - t
      [] kind = "sq" -> t * t
      [] kind = "zig" -> IF t % 2 = 1 THEN t + 1 ELSE t - 1
      [] kind = "const" -> 3
      [] kind = "gap" -> IF t = 2 THEN NaN ELSE t

SeriesArray(kind, n) ==
    [time |-> [t \in 1..n |-> t],
     latitude |-> LatAxis(1, 1),
     longitude |-> LonAxis(1, 1),
     values |-> [t \in 1..n |-> <<<<SeriesValue(kind, t, n)>>>>]]

\* two single-cell arrays over the same time steps
InitSeries ==
    \E n \in 1..MaxSeries, skind \in SourceKinds, tkind \in TargetKinds :
        /\ soil_moisture = SeriesArray(skind, n)
        /\ bare_soil = SeriesArray(tkind, n)
        /\ clamp_enabled = TRUE
        /\ InitCommon

\* a source or a target without any longitude, as an empty bounding box
\* delivers it
InitEmpty ==
    \E slat \in 1..MaxSrc, tlat \in 1..MaxSrc, slon \in 0..1, tlon \in 0..1,
       axis \in TimeAxes :
        /\ slon = 0 \/ tlon = 0
        /\ soil_moisture = SourceArray(axis, slat, slon, tlat, tlon, FALSE)
        /\ bare_soil = TargetArray(axis, tlat, tlon, slat, slon, FALSE)
        /\ clamp_enabled = TRUE
        /\ InitCommon

\* the time axis 1..n with the labels from a step on moved one step on
Shifted(n, from) == [t \in 1..n |-> IF t >= from THEN t + 1 ELSE t]

\* two arrays of as many time steps whose timestamps differ from some step on
InitShifted ==
    \E slat \in 1..MaxSrc, tlat \in 1..MaxTgt, n \in 1..MaxTime,
       sgap \in BOOLEAN, tgap \in BOOLEAN :
      \E from \in 1..n :
        /\ soil_moisture = SourceArray([t \in 1..n |-> t], slat, 1, tlat, 2, sgap)
        /\ bare_soil = TargetArray(Shifted(n, from), tlat, 2, slat, 1, tgap)
        /\ clamp_enabled = TRUE
        /\ InitCommon

\* the array a bounding box is cut from: MaxSel time steps, descending
\* latitudes and ascending longitudes, every cell with a value of its own
TreeCover ==
    [time |-> LonAxis(MaxSel, 1),
     latitude |-> LatAxis(MaxSel, 1),
     longitude |-> LonAxis(MaxSel, 1),
     values |-> [t \in 1..MaxSel |-> [i \in 1..MaxSel |-> [j \in 1..MaxSel |->
        100 * t + 10 * i + j]]]]

\* slices on the descending latitude, in either order of start and stop, and
\* slices from start up to stop on longitude and time; a bound lies on a
\* coordinate or beside it
LatBounds == ((0 - 2 * MaxSel)..0) \X ((0 - 2 * MaxSel)..0)
AscendingBounds == {b \in (0..(2 * MaxSel)) \X (0..(2 * MaxSel)) : b[1] <= b[2]}

\* an array and the bounding box to select from it
InitSelection ==
    /\ tree_cover = TreeCover
    /\ lat_bounds \in LatBounds
    /\ lon_bounds \in AscendingBounds
    /\ time_bounds \in AscendingBounds
    /\ canberra_tree_cover = NoArray
    /\ soil_moisture = NoArray
    /\ bare_soil = NoArray
    /\ fine_moisture = NoArray
    /\ ZOOM_FACTOR = << <<1, 1>>, <<1, 1>> >>
    /\ SPLINE_ORDER = 3
    /\ output = <<>>
    /\ done_steps = 0
    /\ scipy = "none"
    /\ corr = NoGrid
    /\ latout = <<>>
    /\ cells_done = 0
    /\ rank_failed = FALSE
    /\ clamp_enabled = TRUE
    /\ NoSummary
    /\ pc = "select"
    /\ err = "none"

\* the label of the cells of the country grid outside every country
Sea == 3

\* the table of data/countries.csv after lines 364-366: the index ISO2 and
\* the LABEL of the row, its position in the file
Countries ==
    << [ISO2 |-> "EG", LABEL |-> 0], [ISO2 |-> "AU", LABEL |-> 1],
       [ISO2 |-> "FO", LABEL |-> 2] >>

\* the mean annual runoff of a cell that has one
RunoffAt(c) == 2 * ((2 * c) % 5)

\* the kinds of a cell, <<variation, runoff>>: line 247 makes the variation
\* std / mean, missing where the mean runoff is missing and where it is zero;
\* a runoff of 1 stands for the runoff RunoffAt gives the cell
CellKinds == {<<NaN, NaN>>, <<NaN, 0>>, <<1, 1>>, <<3, 1>>}

\* the grids and the table of the regional summary
InitSummary ==
    /\ cgrid \in [1..MaxCells -> 0..Sea]
    /\ \E kinds \in [1..MaxCells -> CellKinds] :
        /\ variation = [c \in 1..MaxCells |-> kinds[c][1]]
        /\ mean_runoff = [c \in 1..MaxCells |->
                IF kinds[c][2] = 1 THEN RunoffAt(c) ELSE kinds[c][2]]
    /\ countries = Countries
    /\ filtered = <<>>
    /\ soil_moisture = NoArray
    /\ bare_soil = NoArray
    /\ fine_moisture = NoArray
    /\ ZOOM_FACTOR = << <<1, 1>>, <<1, 1>> >>
    /\ SPLINE_ORDER = 3
    /\ output = <<>>
    /\ done_steps = 0
    /\ scipy = "none"
    /\ corr = NoGrid
    /\ latout = <<>>
    /\ cells_done = 0
    /\ rank_failed = FALSE
    /\ tree_cover = NoArray
    /\ lat_bounds = <<0, 0>>
    /\ lon_bounds = <<0, 0>>
    /\ time_bounds = <<0, 0>>
    /\ canberra_tree_cover = NoArray
    /\ clamp_enabled = TRUE
    /\ pc = "summary"
    /\ err = "none"

Init ==
    InitGrid \/ InitSelf \/ InitSeries \/ InitEmpty \/ InitShifted \/ InitSelection
        \/ InitSummary

Next ==
    Prepare \/ AlignStep \/ AllocCorr \/ CellStep \/ Finish \/ Select
        \/ AddVariation \/ DropNa \/ SortValues \/ AddRunoff \/ Filter

Spec == Init /\ [][Next]_vars

----------------------------------------------------------------------------
(* Properties of the Grid Aligner. *)

TargetShape == <<NLat(bare_soil), NLon(bare_soil)>>

\* the resampling loop has run to its end
Aligned == pc \in {"aligned", "map", "mapped", "done"} \/ (pc = "failed" /\ scipy # "none")

\* the source and reference slices that finished step k has read
SourceSlice(k) == soil_moisture.values[IndexOf(soil_moisture.time, fine_moisture.time[k])]
ReferenceSlice(k) == bare_soil.values[IndexOf(bare_soil.time, fine_moisture.time[k])]

\* the source value at the source cell nearest to output cell (i, j)
SourceAt(k, i, j) ==
    SourceSlice(k)[Nearest(i, NLat(soil_moisture), NLat(bare_soil))]
                  [Nearest(j, NLon(soil_moisture), NLon(bare_soil))]

TargetCells == (1..NLat(bare_soil)) \X (1..NLon(bare_soil))

\* C1: once ndzoom has run, its output and every slice of the resampled
\* array have the target's (latitude, longitude) shape, for every size ratio,
\* and each axis' zoom factor is that axis' target size over its source size.
C1_OutputShapeIsTargetShape ==
    output # <<>> =>
        /\ Shape2(output) = TargetShape
        /\ \A k \in DOMAIN fine_moisture.values :
                Shape2(fine_moisture.values[k]) = TargetShape
        /\ ZOOM_FACTOR[1][1] * NLat(soil_moisture) = ZOOM_FACTOR[1][2] * NLat(bare_soil)
        /\ ZOOM_FACTOR[2][1] * NLon(soil_moisture) = ZOOM_FACTOR[2][2] * NLon(bare_soil)

\* a finished resampling with a non-integer ratio on latitude and another
\* ratio on longitude
C1_Witness ==
    /\ pc = "aligned"
    /\ NLat(soil_moisture) = 2 /\ NLat(bare_soil) = 3
    /\ NLon(soil_moisture) = 1 /\ NLon(bare_soil) = 4
    /\ Shape2(output) = <<3, 4>>

\* C2: in every finished time step, an output cell is missing when the
\* reference array is missing there or the source is missing at the source
\* cell the nearest-neighbour zoom maps onto it, for every order.
C2_MissingInputsAreMissing ==
    \A k \in 1..done_steps : \A c \in TargetCells :
        (ReferenceSlice(k)[c[1]][c[2]] = NaN \/ SourceAt(k, c[1], c[2]) = NaN)
            => fine_moisture.values[k][c[1]][c[2]] = NaN

\* a cubic resampling with a cell missing only in the source and a cell
\* missing only in the reference, both missing in the output
C2_Witness ==
    /\ pc = "aligned"
    /\ SPLINE_ORDER = 3
    /\ \E k \in 1..done_steps : \E c, d \in TargetCells :
        /\ SourceAt(k, c[1], c[2]) = NaN /\ ReferenceSlice(k)[c[1]][c[2]] # NaN
        /\ fine_moisture.values[k][c[1]][c[2]] = NaN
        /\ SourceAt(k, d[1], d[2]) # NaN /\ ReferenceSlice(k)[d[1]][d[2]] = NaN
        /\ fine_moisture.values[k][d[1]][d[2]] = NaN

\* C3 as stated: after the aligner has run, an output cell is missing if and
\* only if the reference array's cell is missing.
C3_SameMissingSet ==
    Aligned =>
        \A k \in 1..done_steps : \A c \in TargetCells :
            fine_moisture.values[k][c[1]][c[2]] = NaN
                <=> ReferenceSlice(k)[c[1]][c[2]] = NaN

\* C3 as amended: every cell missing in the reference array is missing in the
\* output, and where the source is present at the nearest source cell the
\* output cell is missing if and only if the reference cell is.
C3_SameMissingSetWhereSourcePresent ==
    \A k \in 1..done_steps : \A c \in TargetCells :
        /\ ReferenceSlice(k)[c[1]][c[2]] = NaN => fine_moisture.values[k][c[1]][c[2]] = NaN
        /\ SourceAt(k, c[1], c[2]) # NaN =>
                (fine_moisture.values[k][c[1]][c[2]] = NaN
                    <=> ReferenceSlice(k)[c[1]][c[2]] = NaN)

\* a finished resampling whose source is negative at a cell present in the
\* reference, beside a cell missing in the reference only
C3_Witness ==
    /\ Aligned
    /\ \E k \in 1..done_steps : \E c, d \in TargetCells :
        /\ SourceAt(k, c[1], c[2]) # NaN /\ SourceAt(k, c[1], c[2]) < 0
        /\ ReferenceSlice(k)[c[1]][c[2]] # NaN
        /\ fine_moisture.values[k][c[1]][c[2]] # NaN
        /\ SourceAt(k, d[1], d[2]) # NaN /\ ReferenceSlice(k)[d[1]][d[2]] = NaN
        /\ fine_moisture.values[k][d[1]][d[2]] = NaN

\* C4: every non-missing value of a finished slice of the resampled array
\* is greater than or equal to zero, for every order 0-5.
C4_NoNegativeValue ==
    \A k \in 1..done_steps : \A c \in TargetCells :
        fine_moisture.values[k][c[1]][c[2]] # NaN
            => fine_moisture.values[k][c[1]][c[2]] >= 0

\* a spline resampling whose interpolation went below zero at a cell that
\* holds zero afterwards
C4_Witness ==
    /\ pc = "aligned"
    /\ SPLINE_ORDER \in 2..5
    /\ \E c \in TargetCells :
        /\ output[c[1]][c[2]] < 0
        /\ fine_moisture.values[done_steps][c[1]][c[2]] = 0

\* C5: once the aligner has accepted and resampled a source/target pair, the
\* resampled array and the target have the same latitude, longitude and time
\* coordinate sequences.
C5_CoRegistered ==
    Aligned =>
        /\ fine_moisture.latitude = bare_soil.latitude
        /\ fine_moisture.longitude = bare_soil.longitude
        /\ fine_moisture.time = bare_soil.time

\* an accepted pair of two time steps whose source grid differs from the
\* target grid
C5_Witness ==
    /\ pc = "aligned"
    /\ NTime(fine_moisture) = 2
    /\ soil_moisture.latitude # bare_soil.latitude
    /\ soil_moisture.longitude # bare_soil.longitude

\* the value a source value leaves in the resampled array at order 0
Clamped(v) == IF v # NaN /\ v < 0 THEN 0 ELSE v

\* the array has been resampled onto its own grid with nearest-neighbour order
SelfResampled == Aligned /\ SPLINE_ORDER = 0 /\ bare_soil = soil_moisture

Upsampled2To4 ==
    /\ Aligned
    /\ SPLINE_ORDER = 0
    /\ NLat(soil_moisture) = 2 /\ NLon(soil_moisture) = 2
    /\ TargetShape = <<4, 4>>
    /\ \A k \in DOMAIN bare_soil.values : \A c \in TargetCells :
            bare_soil.values[k][c[1]][c[2]] # NaN

\* the source pixel of the 2x2 block that holds output cell (i, j)
BlockPixel(k, i, j) == SourceSlice(k)[(i + 1) \div 2][(j + 1) \div 2]

----------------------------------------------------------------------------
(* Properties of the Correlation Mapper. *)

\* the cells the loop has recorded so far
RecordedCells == {c \in TargetCells : c[1] \in DOMAIN latout /\ c[2] \in DOMAIN latout[c[1]]}

\* the two time series the loop reads for cell c
CellX(c) == SelCell(fine_moisture, fine_moisture.latitude[c[1]], fine_moisture.longitude[c[2]])
CellY(c) == SelCell(bare_soil, fine_moisture.latitude[c[1]], fine_moisture.longitude[c[2]])

\* what the cell got: its record and, once assigned, its four grid fields
CellGot(c, rec) ==
    /\ latout[c[1]][c[2]] = rec
    /\ pc = "done" =>
            <<corr.pearson_r[c[1]][c[2]], corr.pearson_p[c[1]][c[2]],
              corr.spearman_r[c[1]][c[2]], corr.spearman_p[c[1]][c[2]]>> = rec

IsConstant(x) == ~HasNaN(x) /\ \A t \in DOMAIN x : x[t] = x[1]

\* y = a * x + b at every time step for some a # 0, with the sign of a
Collinear(x, y) ==
    /\ ~HasNaN(x) /\ ~HasNaN(y)
    /\ ~IsConstant(x) /\ ~IsConstant(y)
    /\ \A s, t \in DOMAIN x :
            (y[t] - y[1]) * (x[s] - x[1]) = (y[s] - y[1]) * (x[t] - x[1])

Rising(x, y) == Collinear(x, y) /\ \E t \in DOMAIN x : (x[t] - x[1]) * (y[t] - y[1]) > 0
Falling(x, y) == Collinear(x, y) /\ \E t \in DOMAIN x : (x[t] - x[1]) * (y[t] - y[1]) < 0

\* C8 as stated: a cell with perfectly linearly related non-constant series
\* gets pearson_r = spearman_r = 1 for a positive slope and pearson_r =
\* spearman_r = -1 with both p-values zero for a negative slope.
C8_PerfectCorrelation ==
    \A c \in RecordedCells :
        /\ Rising(CellX(c), CellY(c)) =>
                /\ latout[c[1]][c[2]][1] = Scale
                /\ latout[c[1]][c[2]][3] = Scale
        /\ Falling(CellX(c), CellY(c)) =>
                CellGot(c, <<0 - Scale, 0, 0 - Scale, 0>>)

\* C8 as amended: the coefficients are as stated; both p-values are zero for
\* a negative slope over at least three time steps.
C8_PerfectCorrelationFromThreeSteps ==
    \A c \in RecordedCells :
        /\ Rising(CellX(c), CellY(c)) =>
                /\ latout[c[1]][c[2]][1] = Scale
                /\ latout[c[1]][c[2]][3] = Scale
        /\ Falling(CellX(c), CellY(c)) =>
                /\ latout[c[1]][c[2]][1] = 0 - Scale
                /\ latout[c[1]][c[2]][3] = 0 - Scale
                /\ Len(CellX(c)) >= 3 => CellGot(c, <<0 - Scale, 0, 0 - Scale, 0>>)

\* the statistic grid of A = [1,2,3,4,5] and B = [5,4,3,2,1]
C8_Witness ==
    /\ pc = "done"
    /\ CellX(<<1, 1>>) = <<1, 2, 3, 4, 5>>
    /\ CellY(<<1, 1>>) = <<5, 4, 3, 2, 1>>
    /\ corr.pearson_r[1][1] = 0 - Scale
    /\ corr.spearman_r[1][1] = 0 - Scale
    /\ corr.pearson_p[1][1] = 0
    /\ corr.spearman_p[1][1] = 0

\* the correlation loop has started and has not been stopped by an error
MapperRaised == pc = "failed" /\ scipy # "none"

\* C9: on a grid with a cell whose series is constant the mapper does not
\* raise, and that cell's four statistics are all not-a-number.
C9_ConstantSeriesGivesNaN ==
    /\ (scipy # "none" /\ \E c \in TargetCells : IsConstant(CellX(c)) \/ IsConstant(CellY(c)))
            => ~MapperRaised
    /\ \A c \in RecordedCells :
            (IsConstant(CellX(c)) \/ IsConstant(CellY(c)))
                => CellGot(c, <<NaN, NaN, NaN, NaN>>)

\* C9 for series of at least two time steps
C9_ConstantSeriesOfTwoStepsGivesNaN ==
    NTime(bare_soil) >= 2 => C9_ConstantSeriesGivesNaN

\* C10: no failure of a per-cell statistic aborts the correlation loop.
C10_FailureNeverAborts == ~MapperRaised

\* the cell the correlation loop processes next, and its four statistics as
\* functions of the two time series of that cell alone
NextCell == <<(cells_done \div NLon(fine_moisture)) + 1, (cells_done % NLon(fine_moisture)) + 1>>

LinearStat(x, y) == <<PearsonR(x, y), PearsonP(PearsonR(x, y), Len(x), scipy)>>
RankStat(x, y) == <<SpearmanR(x, y), SpearmanP(SpearmanR(x, y), Len(x))>>

\* every record made so far is the same after the step
RecordsKept == \A d \in RecordedCells : latout'[d[1]][d[2]] = latout[d[1]][d[2]]

\* C11: when the rank correlation fails for a cell, the loop goes on, the
\* cell's record holds the linear coefficient and p-value already computed
\* followed by not-a-number for spearman_r and spearman_p, and the records of
\* all other cells are as before.
C11_RankFailureIsolated ==
    [][(pc = "map" /\ rank_failed') =>
            /\ pc' # "failed"
            /\ cells_done' = cells_done + 1
            /\ latout'[NextCell[1]][NextCell[2]]
                    = LinearStat(CellX(NextCell), CellY(NextCell)) \o <<NaN, NaN>>
            /\ RecordsKept]_vars

\* the rank correlation has failed for a cell after a cell with a linear
\* coefficient was recorded, and the loop has gone on to the end
C11_Witness ==
    /\ rank_failed
    /\ pc = "mapped"
    /\ cells_done >= 2
    /\ \E c \in RecordedCells : latout[c[1]][c[2]][1] # NaN
    /\ latout[NLat(fine_moisture)][NLon(fine_moisture)] = <<NaN, NaN, NaN, NaN>>

\* the time steps at which both series of a cell are present, in order
CompleteSteps(x, y) == SortedSeq({t \in DOMAIN x : x[t] # NaN /\ y[t] # NaN})

\* a series restricted to the given time steps
AtSteps(x, steps) == [n \in DOMAIN steps |-> x[steps[n]]]

\* C12: the coefficients of a cell with some missing time steps are those
\* computed from the remaining complete pairs only.
C12_MissingPairsExcluded ==
    \A c \in RecordedCells :
        LET steps == CompleteSteps(CellX(c), CellY(c))
            x == AtSteps(CellX(c), steps)
            y == AtSteps(CellY(c), steps)
        IN  /\ latout[c[1]][c[2]][1] = PearsonR(x, y)
            /\ latout[c[1]][c[2]][3] = SpearmanR(x, y)

\* C13: the statistic grid has exactly the four fields pearson_r, pearson_p,
\* spearman_r and spearman_p beside its coordinates, each of the inputs'
\* (latitude, longitude) shape with the inputs' coordinates, and the four
\* values at (i, j) are the linear coefficient, linear p-value, rank
\* coefficient and rank p-value of the two time series of input cell (i, j).
C13_GridHoldsCellStatistics ==
    pc = "done" =>
        /\ DOMAIN corr = {"latitude", "longitude",
                          "pearson_r", "pearson_p", "spearman_r", "spearman_p"}
        /\ corr.latitude = bare_soil.latitude /\ corr.latitude = fine_moisture.latitude
        /\ corr.longitude = bare_soil.longitude /\ corr.longitude = fine_moisture.longitude
        /\ \A f \in {corr.pearson_r, corr.pearson_p, corr.spearman_r, corr.spearman_p} :
                Shape2(f) = TargetShape
        /\ \A c \in TargetCells :
                /\ <<corr.pearson_r[c[1]][c[2]], corr.pearson_p[c[1]][c[2]]>>
                        = LinearStat(CellX(c), CellY(c))
                /\ <<corr.spearman_r[c[1]][c[2]], corr.spearman_p[c[1]][c[2]]>>
                        = RankStat(CellX(c), CellY(c))

\* a finished grid with more columns than rows that holds a rising and a
\* falling cell
C13_Witness ==
    /\ pc = "done"
    /\ NLat(bare_soil) < NLon(bare_soil)
    /\ \E c, d \in TargetCells :
        /\ Rising(CellX(c), CellY(c)) /\ corr.pearson_r[c[1]][c[2]] = Scale
        /\ Falling(CellX(d), CellY(d)) /\ corr.pearson_r[d[1]][d[2]] = 0 - Scale
        /\ corr.pearson_p[c[1]][c[2]] # corr.spearman_p[c[1]][c[2]]

\* the source or the target has an axis without cells
EmptyAxis ==
    \/ NLat(soil_moisture) = 0 \/ NLon(soil_moisture) = 0
    \/ NLat(bare_soil) = 0 \/ NLon(bare_soil) = 0

\* C14: with a source or target axis of length 0 the aligner fails with a
\* hard error and never finishes with a resampled array.
C14_EmptyGridFails ==
    (pc \notin {"select", "selected"} /\ EmptyAxis) => ~Aligned

C16_InputsNotMutated ==
    [][soil_moisture' = soil_moisture /\ bare_soil' = bare_soil]_vars

\* both stages have run and the resampled array differs from the reference
\* array it was copied from
C16_Witness ==
    /\ pc = "done"
    /\ fine_moisture.values # bare_soil.values
    /\ corr.pearson_r # <<>>

\* the coordinates of an axis that lie within the bounds, endpoints included;
\* on the descending latitude the bounds run from the larger to the smaller
InBounds(axis, bounds) ==
    {c \in Range(axis) :
        IF IsDescending(axis) THEN bounds[1] >= c /\ c >= bounds[2]
        ELSE bounds[1] <= c /\ c <= bounds[2]}

\* C17: a selection by latitude, longitude and time bounds returns exactly
\* the cells whose coordinates lie within the bounds, endpoints included, each
\* with its own value, also on the descending latitude axis.
C17_SelectionIsInclusive ==
    pc = "selected" =>
        /\ Range(canberra_tree_cover.latitude) = InBounds(tree_cover.latitude, lat_bounds)
        /\ Range(canberra_tree_cover.longitude) = InBounds(tree_cover.longitude, lon_bounds)
        /\ Range(canberra_tree_cover.time) = InBounds(tree_cover.time, time_bounds)
        /\ Len(canberra_tree_cover.latitude) = Cardinality(Range(canberra_tree_cover.latitude))
        /\ Len(canberra_tree_cover.longitude) = Cardinality(Range(canberra_tree_cover.longitude))
        /\ Len(canberra_tree_cover.time) = Cardinality(Range(canberra_tree_cover.time))
        /\ \A t \in DOMAIN canberra_tree_cover.time,
              i \in DOMAIN canberra_tree_cover.latitude,
              j \in DOMAIN canberra_tree_cover.longitude :
                \A u \in DOMAIN tree_cover.time, a \in DOMAIN tree_cover.latitude,
                   o \in DOMAIN tree_cover.longitude :
                    ( /\ tree_cover.time[u] = canberra_tree_cover.time[t]
                      /\ tree_cover.latitude[a] = canberra_tree_cover.latitude[i]
                      /\ tree_cover.longitude[o] = canberra_tree_cover.longitude[j] )
                    => canberra_tree_cover.values[t][i][j] = tree_cover.values[u][a][o]

\* a box whose latitude bounds run from the first coordinate down to the
\* second, whose longitude bounds are the first two coordinates and whose time
\* bounds are one time step: every endpoint is selected
C17_Witness ==
    /\ pc = "selected"
    /\ lat_bounds = <<tree_cover.latitude[1], tree_cover.latitude[2]>>
    /\ lon_bounds = <<tree_cover.longitude[1], tree_cover.longitude[2]>>
    /\ time_bounds = <<tree_cover.time[2], tree_cover.time[2]>>
    /\ canberra_tree_cover.latitude = SubSeq(tree_cover.latitude, 1, 2)
    /\ canberra_tree_cover.longitude = SubSeq(tree_cover.longitude, 1, 2)
    /\ canberra_tree_cover.time = <<tree_cover.time[2]>>
    /\ canberra_tree_cover.values[1][2][1] = tree_cover.values[2][2][1]

\* the resampled slice made from a source slice and a reference slice with
\* the given overshoot
Resampled(data, reference, ring) ==
    Remask(Clamp(ndzoom(nan_to_num(data), ZOOM_FACTOR, SPLINE_ORDER, ring)),
           reference, data, ZOOM_FACTOR)

\* C18: the resampled array has one time slice per source time step, labelled
\* with the source's time coordinate, and every finished slice is the one
\* computed from the source slice and masked with the reference slice of the
\* same time label.
C18_SliceOfItsOwnTimeStep ==
    done_steps >= 1 =>
        /\ fine_moisture.time = soil_moisture.time
        /\ Len(fine_moisture.values) = NTime(soil_moisture)
        /\ \A k \in 1..done_steps :
            \E s \in DOMAIN soil_moisture.time, r \in DOMAIN bare_soil.time :
                /\ soil_moisture.time[s] = fine_moisture.time[k]
                /\ bare_soil.time[r] = fine_moisture.time[k]
                /\ \E ring \in Rings(SPLINE_ORDER) :
                    fine_moisture.values[k]
                        = Resampled(soil_moisture.values[s], bare_soil.values[r], ring)

\* two time steps resampled into two different slices
C18_Witness ==
    /\ pc = "aligned"
    /\ done_steps = 2
    /\ fine_moisture.time = <<1, 2>>
    /\ soil_moisture.values[1] # soil_moisture.values[2]
    /\ fine_moisture.values[1] # fine_moisture.values[2]

\* C19: the iteration for a time step writes the output slice of that time
\* step only; every other slice and every coordinate of the resampled array
\* is as before.
C19_StepWritesItsSliceOnly ==
    [][pc = "align" =>
            /\ fine_moisture'.time = fine_moisture.time
            /\ fine_moisture'.latitude = fine_moisture.latitude
            /\ fine_moisture'.longitude = fine_moisture.longitude
            /\ DOMAIN fine_moisture'.values = DOMAIN fine_moisture.values
            /\ \A k \in DOMAIN fine_moisture.values :
                    k # done_steps + 1 => fine_moisture'.values[k] = fine_moisture.values[k]]_vars

\* the first of two time steps has been written and the second slice is
\* still the copy of the reference array
C19_Witness ==
    /\ pc = "align"
    /\ done_steps = 1
    /\ NTime(fine_moisture) = 2
    /\ fine_moisture.values[1] # bare_soil.values[1]
    /\ fine_moisture.values[2] = bare_soil.values[2]

\* the source slice with zero at every missing cell and the stored value at
\* every other cell
ZeroFilled(data) ==
    [i \in DOMAIN data |-> [j \in DOMAIN data[i] |->
        IF data[i][j] = NaN THEN 0 ELSE data[i][j]]]

\* C20: in every time step the interpolation is given the source slice with
\* exactly zero at each missing cell and the original value at each other
\* cell, so no missing value enters it; at order 0 every output cell is zero
\* or the value of a non-missing source cell.
C20_FillBeforeInterpolate ==
    [][pc = "align" =>
            LET data == SourceSlice(done_steps + 1)
            IN  /\ \E ring \in Rings(SPLINE_ORDER) :
                    output' = ndzoom(ZeroFilled(data), ZOOM_FACTOR, SPLINE_ORDER, ring)
                /\ SPLINE_ORDER = 0 =>
                    \A i \in DOMAIN output' : \A j \in DOMAIN output'[i] :
                        /\ output'[i][j] # NaN
                        /\ \E a \in DOMAIN data : \E o \in DOMAIN data[a] :
                            output'[i][j] = (IF data[a][o] = NaN THEN 0 ELSE data[a][o])]_vars

\* a nearest-neighbour step whose source slice has a missing cell, passed on
\* as zero, and a negative cell, passed on as it is
C20_Witness ==
    /\ pc \in {"align", "aligned"}
    /\ done_steps >= 1
    /\ SPLINE_ORDER = 0
    /\ SourceSlice(done_steps)[1][1] = NaN
    /\ output[1][1] = 0
    /\ \E c \in TargetCells :
        /\ SourceAt(done_steps, c[1], c[2]) # NaN
        /\ SourceAt(done_steps, c[1], c[2]) < 0
        /\ output[c[1]][c[2]] = SourceAt(done_steps, c[1], c[2])

----------------------------------------------------------------------------
(* Further properties of the Grid Aligner. *)

\* C21: the clamp of negative results is a policy of the variable: when the
\* caller has not enabled it for the variable, a negative interpolated value
\* is kept unchanged in the resampled output.
C21_ClampFollowsPolicy ==
    (pc \in {"align", "aligned"} /\ done_steps >= 1 /\ ~clamp_enabled) =>
        \A c \in TargetCells :
            (output[c[1]][c[2]] < 0 /\ fine_moisture.values[done_steps][c[1]][c[2]] # NaN)
                => fine_moisture.values[done_steps][c[1]][c[2]] = output[c[1]][c[2]]

\* C23: in every finished slice of the resampled array a cell is missing
\* exactly when it is missing in the reference slice or its nearest source
\* cell is missing, whatever the interpolation order.
C23_MaskIsUnion ==
    \A k \in 1..done_steps : \A c \in TargetCells :
        fine_moisture.values[k][c[1]][c[2]] = NaN
            <=> (ReferenceSlice(k)[c[1]][c[2]] = NaN \/ SourceAt(k, c[1], c[2]) = NaN)

\* a quintic upsampling with a cell missing from the source only, a cell
\* missing from the reference only and a cell clamped to zero that is present
C23_Witness ==
    /\ pc = "aligned"
    /\ SPLINE_ORDER = 5
    /\ NLat(bare_soil) > NLat(soil_moisture)
    /\ \E k \in 1..done_steps : \E b, c, d \in TargetCells :
        /\ SourceAt(k, b[1], b[2]) = NaN /\ ReferenceSlice(k)[b[1]][b[2]] # NaN
        /\ fine_moisture.values[k][b[1]][b[2]] = NaN
        /\ SourceAt(k, c[1], c[2]) # NaN /\ ReferenceSlice(k)[c[1]][c[2]] = NaN
        /\ fine_moisture.values[k][c[1]][c[2]] = NaN
        /\ SourceAt(k, d[1], d[2]) < 0 /\ SourceAt(k, d[1], d[2]) # NaN
        /\ fine_moisture.values[k][d[1]][d[2]] = 0

\* the resampling loop has stopped at a timestamp the target does not have
AlignerLostLabel == pc = "failed" /\ err = "KeyError" /\ fine_moisture # NoArray

\* the zoomed and clamped slice of line 393, before the masks of lines 396-397
Unmasked(data, ring) ==
    LET out == ndzoom(ZeroFilled(data), ZOOM_FACTOR, SPLINE_ORDER, ring)
    IN  [i \in DOMAIN out |-> [j \in DOMAIN out[i] |-> Clamped(out[i][j])]]

\* every step before the one that failed has left its resampled slice
EarlierStepsResampled ==
    /\ ~HasLabel(bare_soil.time, fine_moisture.time[done_steps + 1])
    /\ \A k \in 1..done_steps :
        /\ HasLabel(bare_soil.time, fine_moisture.time[k])
        /\ \E ring \in Rings(SPLINE_ORDER) :
            fine_moisture.values[k] = Resampled(SourceSlice(k), ReferenceSlice(k), ring)

\* C26 as stated: when a source timestamp is absent from the target's time
\* axis the aligner fails at that step, the slices of the earlier steps are
\* resampled and every remaining slice still holds the copied target values.
C26_RemainingSlicesAreCopies ==
    AlignerLostLabel =>
        /\ EarlierStepsResampled
        /\ \A k \in (done_steps + 1)..NTime(fine_moisture) :
            fine_moisture.values[k] = bare_soil.values[k]

\* C26: when a source timestamp is absent from the target's time axis the
\* aligner fails at that step, the slices of the earlier steps are resampled,
\* the slice of the failing step holds the interpolated and clamped values
\* without any mask, and every later slice still holds the copied target
\* values.
C26_FailingSliceIsUnmasked ==
    AlignerLostLabel =>
        /\ EarlierStepsResampled
        /\ \E ring \in Rings(SPLINE_ORDER) :
            fine_moisture.values[done_steps + 1]
                = Unmasked(SourceSlice(done_steps + 1), ring)
        /\ \A k \in (done_steps + 2)..NTime(fine_moisture) :
            fine_moisture.values[k] = bare_soil.values[k]

\* a run stopped at the first of two timestamps: the first slice is no
\* longer the target's, where the source is missing it holds a zero, and the
\* second slice is the target's
C26_Witness ==
    /\ AlignerLostLabel
    /\ done_steps = 0
    /\ NTime(fine_moisture) = 2
    /\ fine_moisture.values[1] # bare_soil.values[1]
    /\ SourceSlice(1)[1][1] = NaN
    /\ fine_moisture.values[1][1][1] = 0
    /\ fine_moisture.values[2] = bare_soil.values[2]

----------------------------------------------------------------------------
(* Further properties of the Correlation Mapper. *)

\* a series without any value
AllMissing(x) == \A t \in DOMAIN x : x[t] = NaN

\* C22: on a grid with a cell where either series is missing at all time
\* steps the mapper does not raise, and all four statistics of that cell are
\* not-a-number.
C22_MissingCellGivesNaN ==
    /\ (scipy # "none" /\ \E c \in TargetCells : AllMissing(CellX(c)) \/ AllMissing(CellY(c)))
            => ~MapperRaised
    /\ \A c \in RecordedCells :
            (AllMissing(CellX(c)) \/ AllMissing(CellY(c)))
                => CellGot(c, <<NaN, NaN, NaN, NaN>>)

\* C22 for series of at least two time steps
C22_MissingCellOfTwoStepsGivesNaN ==
    NTime(bare_soil) >= 2 => C22_MissingCellGivesNaN

\* no cell of the field has been assigned
Unwritten(field) ==
    \A i \in DOMAIN field : \A j \in DOMAIN field[i] : field[i][j] = Uninit

\* C24: from its allocation until the loop over all cells has completed the
\* statistic grid holds its pre-allocated contents in all four fields, also
\* when the loop has been aborted by an error.
C24_GridWrittenAfterLoop ==
    (scipy # "none" /\ pc # "done") =>
        /\ Unwritten(corr.pearson_r) /\ Unwritten(corr.pearson_p)
        /\ Unwritten(corr.spearman_r) /\ Unwritten(corr.spearman_p)

\* a loop over several cells aborted by an error of pearsonr
C24_Witness ==
    /\ MapperRaised
    /\ err = "ValueError"
    /\ NLat(bare_soil) * NLon(bare_soil) >= 2
    /\ corr.pearson_r[1][1] = Uninit
    /\ corr.spearman_p[NLat(bare_soil)][NLon(bare_soil)] = Uninit

\* the position of cell c in latitude-major order
Position(c) == (c[1] - 1) * NLon(fine_moisture) + c[2]

\* two complete arrays on one time axis, of every pair of grid sizes, or
\* arrays without cells
InitLoop ==
    \/ \E slat \in 1..MaxSrc, slon \in 1..MaxSrc, tlat \in 1..MaxTgt,
          tlon \in 1..MaxTgt, axis \in TimeAxes :
            /\ soil_moisture = SourceArray(axis, slat, slon, tlat, tlon, FALSE)
            /\ bare_soil = TargetArray(axis, tlat, tlon, slat, slon, FALSE)
            /\ clamp_enabled = TRUE
            /\ InitCommon
    \/ InitEmpty

\* the cells of the notebook from the resampling to the statistic grid
NextLoop == Prepare \/ AlignStep \/ AllocCorr \/ CellStep \/ Finish

\* what an iteration of the loop does to the control of the loop: it goes on
\* to the next cell or it leaves the loop with an exception
LoopAdvances ==
    /\ pc = "map"
    /\ \/ cells_done' = cells_done + 1 /\ pc' \in {"map", "mapped"}
       \/ cells_done' = cells_done /\ pc' = "failed"

\* a for loop does its iterations one after another until it ends: while the
\* interpreter is inside the loop, it does the next iteration
FairSpec == InitLoop /\ [][NextLoop]_vars /\ WF_<<cells_done, pc>>(LoopAdvances)

\* C25: the loop over the cells terminates; each step that does not raise
\* records the next cell in latitude-major order and no other, and when the
\* loop has ended without an error the list holds n_lat rows of n_lon
\* records each.
C25_LoopTerminatesInOrder ==
    /\ (pc = "map") ~> (pc \in {"mapped", "failed"})
    /\ [](pc = "map" => cells_done < NLat(fine_moisture) * NLon(fine_moisture))
    /\ [][(pc = "map" /\ pc' # "failed") =>
            /\ cells_done' = cells_done + 1
            /\ RecordedCells' = RecordedCells \cup {NextCell}
            /\ Position(NextCell) = cells_done']_vars
    /\ [](pc \in {"map", "mapped", "done"} =>
            RecordedCells = {c \in TargetCells : Position(c) <= cells_done})
    /\ [](pc \in {"mapped", "done"} =>
            /\ cells_done = NLat(fine_moisture) * NLon(fine_moisture)
            /\ Len(latout) = NLat(fine_moisture)
            /\ \A i \in DOMAIN latout : Len(latout[i]) = NLon(fine_moisture))

\* a finished loop over a grid of several rows and several columns
C25_Witness ==
    /\ pc = "mapped"
    /\ NLat(fine_moisture) = 3 /\ NLon(fine_moisture) = 4
    /\ Len(latout) = 3
    /\ Len(latout[3]) = 4

\* C30: every record of the list has four entries, the linear coefficient
\* and its p-value followed by the rank coefficient and its p-value or by
\* two not-a-number values, and the four fields of the grid are the entries
\* 1 to 4 of the record of the cell.
C30_RecordHasFourEntries ==
    \A c \in RecordedCells :
        LET rec == latout[c[1]][c[2]]
        IN  /\ Len(rec) = 4
            /\ <<rec[1], rec[2]>> = LinearStat(CellX(c), CellY(c))
            /\ <<rec[3], rec[4]>> \in {RankStat(CellX(c), CellY(c)), <<NaN, NaN>>}
            /\ pc = "done" =>
                /\ corr.pearson_r[c[1]][c[2]] = rec[1]
                /\ corr.pearson_p[c[1]][c[2]] = rec[2]
                /\ corr.spearman_r[c[1]][c[2]] = rec[3]
                /\ corr.spearman_p[c[1]][c[2]] = rec[4]

\* a finished loop whose last cell went through the except clause and which
\* holds a record with a rank coefficient
C30_Witness ==
    /\ pc = "mapped"
    /\ rank_failed
    /\ \E c, d \in RecordedCells :
        /\ latout[c[1]][c[2]][3] # NaN /\ latout[c[1]][c[2]][1] # NaN
        /\ Position(d) = cells_done
        /\ latout[d[1]][d[2]] = <<NaN, NaN, NaN, NaN>>

----------------------------------------------------------------------------
(* Properties of the regional summary. *)

\* the cells of the country grid that carry the label
CellsOf(label) == {c \in DOMAIN cgrid : cgrid[c] = label}

\* v is the mean, in tenths and rounded down, of the values the grid has on
\* the cells; there is no mean of no value
IsMeanOf(v, grid, cells) ==
    LET present == {c \in cells : grid[c] # NaN}
        total == SumTo([c \in DOMAIN grid |-> IF c \in present THEN grid[c] ELSE 0],
                       Len(grid))
    IN  IF present = {} THEN v = NaN
        ELSE /\ v # NaN
             /\ v * Cardinality(present) <= Tenths * total
             /\ Tenths * total < (v + 1) * Cardinality(present)

\* the cells of lines 407-408, and of line 426, have been run
Summarised == cgrid # <<>> /\ pc # "summary"
Cleaned == Summarised /\ pc # "summarised"

\* C27: the VARIATION of each country is the mean of the statistic over the
\* cells that carry the country's label and have a value, and of no other
\* cell; a country without such a cell gets a missing value, and after the
\* drop step no row of the table has a missing VARIATION.
C27_CountryMeans ==
    /\ Summarised =>
        \A i \in DOMAIN countries :
            /\ IsMeanOf(countries[i].VARIATION, variation, CellsOf(countries[i].LABEL))
            /\ CellsOf(countries[i].LABEL) = {} => countries[i].VARIATION = NaN
    /\ pc = "summarised" =>
        /\ Len(countries) = Len(Countries)
        /\ \A i \in DOMAIN countries :
            /\ countries[i].ISO2 = Countries[i].ISO2
            /\ countries[i].LABEL = Countries[i].LABEL
    /\ Cleaned => \A i \in DOMAIN countries : countries[i].VARIATION # NaN

\* a table after the drop step with a country dropped for want of cells and
\* a country whose mean is taken over its two cells of different values,
\* while a third cell with a value belongs to another country
C27_Witness ==
    /\ pc = "cleaned"
    /\ Len(countries) = 2
    /\ \E label \in 0..(Sea - 1) : CellsOf(label) = {}
    /\ \E i, j \in DOMAIN countries : \E b, c, d \in DOMAIN cgrid :
        /\ b # c
        /\ CellsOf(countries[i].LABEL) = {b, c}
        /\ variation[b] = 1 /\ variation[c] = 3
        /\ countries[i].VARIATION = 2 * Tenths
        /\ cgrid[d] = countries[j].LABEL
        /\ countries[j].VARIATION = Tenths

\* the rows of a table
Rows(table) == {table[i] : i \in DOMAIN table}

\* C28: the ranking step leaves the table with the same rows, in
\* non-increasing order of VARIATION; the step that adds RUNOFF keeps every
\* row in its place and gives it the mean runoff over the cells of its own
\* label.
C28_RankedAndPaired ==
    [][/\ pc = "cleaned" =>
            /\ Len(countries') = Len(countries)
            /\ Rows(countries') = Rows(countries)
            /\ \A i, j \in DOMAIN countries' :
                i < j => countries'[i].VARIATION >= countries'[j].VARIATION
       /\ pc = "ranked" =>
            /\ Len(countries') = Len(countries)
            /\ \A i \in DOMAIN countries :
                /\ countries'[i].ISO2 = countries[i].ISO2
                /\ countries'[i].LABEL = countries[i].LABEL
                /\ countries'[i].VARIATION = countries[i].VARIATION
                /\ IsMeanOf(countries'[i].RUNOFF, mean_runoff,
                            CellsOf(countries[i].LABEL))]_vars

\* a table of three countries that the ranking has put in another order than
\* the file's, each with a RUNOFF of its own
C28_Witness ==
    /\ pc = "runoff"
    /\ Len(countries) = 3
    /\ countries[1].ISO2 = "FO"
    /\ countries[1].VARIATION > countries[3].VARIATION
    /\ countries[1].RUNOFF # countries[2].RUNOFF
    /\ countries[2].RUNOFF # countries[3].RUNOFF
    /\ countries[1].RUNOFF # countries[3].RUNOFF

\* the RUNOFF of Australia in the table
RunoffOfAU == countries[CHOOSE i \in DOMAIN countries : countries[i].ISO2 = "AU"].RUNOFF

\* the positions of the rows with at least Australia's RUNOFF
AtLeastAU == {i \in DOMAIN countries : countries[i].RUNOFF >= RunoffOfAU}

\* C29: the filtered table holds exactly the rows of the ranked table whose
\* RUNOFF is at least Australia's, in the order of the ranked table;
\* Australia's row is among them and no row of lower RUNOFF is.
C29_AtLeastAustralia ==
    pc = "filtered" =>
        /\ \A i \in DOMAIN countries : countries[i].RUNOFF # NaN
        /\ Len(filtered) = Cardinality(AtLeastAU)
        /\ \A n \in DOMAIN filtered : filtered[n] = countries[SortedSeq(AtLeastAU)[n]]
        /\ \E n \in DOMAIN filtered : filtered[n].ISO2 = "AU"
        /\ \A n \in DOMAIN filtered : filtered[n].RUNOFF >= RunoffOfAU

\* a filtered table of two rows from a table of three: a country of higher
\* RUNOFF ranked after Australia is kept, one of lower RUNOFF is left out
C29_Witness ==
    /\ pc = "filtered"
    /\ Len(countries) = 3
    /\ Len(filtered) = 2
    /\ filtered[1].ISO2 = "AU"
    /\ filtered[2].RUNOFF > filtered[1].RUNOFF
    /\ countries[1].RUNOFF < RunoffOfAU

====
